---- MODULE Spec2Model ----
(***************************************************************************)
(* A model of the mcp-taskwarrior-ai bridge: the context detector          *)
(* (src/src/context.ts) and the natural-language bridge                    *)
(* (src/src/index.ts).  A JavaScript string is a sequence of one-character *)
(* strings, so that trimming, prefix tests, substring tests and regular    *)
(* expressions are computed character by character as the code does.      *)
(***************************************************************************)
EXTENDS Integers, Sequences, FiniteSets, TLC

VARIABLES
    markerFile,  \* the .taskproject file of the working directory
    stateFiles,  \* the .task-state.json file of each directory
    gitTop,      \* stdout of `git rev-parse --show-toplevel`, or GitFails
    gitBranch,   \* stdout of `git branch --show-current`, or GitFails
    ticketDir,   \* the one ticket directory of the file system
    context,     \* ContextManager.context
    call,        \* the operation that completed last, with its result
    startup,     \* position of the detection the server's constructor starts
    toolCall     \* the tool request the server is handling, or handled last

vars ==
    <<markerFile, stateFiles, gitTop, gitBranch, ticketDir, context, call,
      startup, toolCall>>

envVars == <<markerFile, stateFiles, gitTop, gitBranch, ticketDir>>

serverVars == <<startup, toolCall>>

-----------------------------------------------------------------------------
(* Bounds of the model *)

\* most words in a generated query
MaxWords == 2

\* most lines in a generated tool output
MaxLines == 3

-----------------------------------------------------------------------------
(* JavaScript strings *)

\* an absent (undefined) field or value: no string, since strings hold
\* one-character elements only
Undefined == <<"undefined">>

UpperChars ==
    {"A","B","C","D","E","F","G","H","I","J","K","L","M",
     "N","O","P","Q","R","S","T","U","V","W","X","Y","Z"}

DigitChars == {"0","1","2","3","4","5","6","7","8","9"}

\* the characters \s matches that occur in the model
SpaceChars == {" ", "\n", "\t", "\r"}

LowerOf ==
    [c \in UpperChars |->
        CASE c = "A" -> "a" [] c = "B" -> "b" [] c = "C" -> "c" [] c = "D" -> "d"
          [] c = "E" -> "e" [] c = "F" -> "f" [] c = "G" -> "g" [] c = "H" -> "h"
          [] c = "I" -> "i" [] c = "J" -> "j" [] c = "K" -> "k" [] c = "L" -> "l"
          [] c = "M" -> "m" [] c = "N" -> "n" [] c = "O" -> "o" [] c = "P" -> "p"
          [] c = "Q" -> "q" [] c = "R" -> "r" [] c = "S" -> "s" [] c = "T" -> "t"
          [] c = "U" -> "u" [] c = "V" -> "v" [] c = "W" -> "w" [] c = "X" -> "x"
          [] c = "Y" -> "y" [] c = "Z" -> "z"]

\* case folding of the i flag
Fold(c) == IF c \in UpperChars THEN LowerOf[c] ELSE c

\* a value used as a condition: undefined and '' are falsy
Truthy(s) == s # Undefined /\ s # <<>>

\* a || b
OrElse(a, b) == IF Truthy(a) THEN a ELSE b

\* s.substring(i - 1), 1-based
From(s, i) == IF i > Len(s) THEN <<>> ELSE SubSeq(s, i, Len(s))

\* the number of leading characters of s that are in set cs
RECURSIVE Span(_, _)
Span(s, cs) ==
    IF s # <<>> /\ Head(s) \in cs THEN 1 + Span(Tail(s), cs) ELSE 0

\* the number of leading characters of s that are not in set cs
RECURSIVE SpanNot(_, _)
SpanNot(s, cs) ==
    IF s # <<>> /\ Head(s) \notin cs THEN 1 + SpanNot(Tail(s), cs) ELSE 0

RECURSIVE TrimEnd(_)
TrimEnd(s) ==
    IF s # <<>> /\ s[Len(s)] \in SpaceChars
    THEN TrimEnd(SubSeq(s, 1, Len(s) - 1))
    ELSE s

\* String.prototype.trim
Trim(s) == TrimEnd(From(s, Span(s, SpaceChars) + 1))

\* s.startsWith(p)
StartsWith(s, p) == Len(s) >= Len(p) /\ SubSeq(s, 1, Len(p)) = p

\* p matches the start of s under the i flag
StartsWithCI(s, p) ==
    /\ Len(s) >= Len(p)
    /\ \A i \in 1..Len(p) : Fold(s[i]) = Fold(p[i])

\* s.indexOf(p) + 1, and 0 when p does not occur
RECURSIVE IndexFrom(_, _, _)
IndexFrom(s, p, i) ==
    IF i + Len(p) - 1 > Len(s) THEN 0
    ELSE IF SubSeq(s, i, i + Len(p) - 1) = p THEN i
    ELSE IndexFrom(s, p, i + 1)

\* s.includes(p)
Includes(s, p) == IndexFrom(s, p, 1) # 0

\* s.split(sep) for a one-character separator
RECURSIVE Split(_, _)
Split(s, sep) ==
    LET n == SpanNot(s, {sep})
    IN  IF n = Len(s) THEN <<s>>
        ELSE <<SubSeq(s, 1, n)>> \o Split(From(s, n + 2), sep)

\* parts.join(sep)
RECURSIVE JoinWith(_, _)
JoinWith(parts, sep) ==
    IF parts = <<>> THEN <<>>
    ELSE IF Len(parts) = 1 THEN parts[1]
    ELSE parts[1] \o sep \o JoinWith(Tail(parts), sep)

\* path.join(dir, name) for a directory without a trailing separator
PathJoin(dir, name) == dir \o <<"/">> \o name

\* path.split('/').pop()
LastSegment(path) ==
    LET parts == Split(path, "/") IN parts[Len(parts)]

-----------------------------------------------------------------------------
(* The environment: working directory, files and the git client *)

\* process.cwd()
Cwd == <<"/","r","/","a","p","p">>

\* the directories a workspace can be rooted at
Dirs == {<<"/","r","/","a","p","p">>, <<"/","r">>}

AbsentFile == [kind |-> "absent", content |-> Undefined]

\* a path that exists (access succeeds) and cannot be read as a file
UnreadableFile == [kind |-> "unreadable", content |-> Undefined]

TextFile(text) == [kind |-> "file", content |-> text]

MarkerFiles ==
    {AbsentFile, UnreadableFile,
     TextFile(<<"m","y","-","p","r","o","j","e","c","t","\n">>), TextFile(<<"w","e","b">>), TextFile(<<" ","\n">>)}

\* a state file: absent, not JSON (JSON.parse throws), or a JSON
\* object whose currentFocus.ticket is `ticket` (Undefined when it has none)
StateFile(kind, ticket) == [kind |-> kind, ticket |-> ticket]

StateFileValues ==
    {StateFile("absent", Undefined), StateFile("garbage", Undefined),
     StateFile("object", Undefined), StateFile("object", <<"Q","A","-","3">>)}

\* the command fails (not a repository, no git client)
GitFails == Undefined

GitTops == {GitFails, <<"/","r","/","a","p","p","\n">>, <<"/","r","\n">>}

GitBranches == {GitFails, <<"m","a","i","n","\n">>, <<"D","R","X","-","9","\n">>, <<"Q","A","-","1","2","-","f","i","x","\n">>}

\* the arguments setCurrentTicket is called with
TicketArgs == {<<"D","R","X","-","9">>, <<"T","-","2">>, <<>>}

-----------------------------------------------------------------------------
(* ContextManager *)

EmptyContext ==
    [currentTicket |-> Undefined, currentProject |-> Undefined,
     workspacePath |-> Undefined, ticketsPath |-> Undefined]

\* ContextManager.exists: access(path) succeeds
Exists(file) == file.kind # "absent"

\* ContextManager.executeCommand: trimmed stdout, '' when the command fails
ExecuteCommand(stdout) == IF stdout = GitFails THEN <<>> ELSE Trim(stdout)

\* the regular expression /^[A-Z]+-\d+/ of detectContext
TicketPattern(s) ==
    LET n == Span(s, UpperChars)
    IN  /\ n >= 1
        /\ n + 1 <= Len(s)
        /\ s[n + 1] = "-"
        /\ Span(From(s, n + 2), DigitChars) >= 1

\* detectContext, lines 18-47: the project, the workspace and the tickets
\* path; reading a marker file that exists and cannot be read throws
ProjectStage(ctx) ==
    IF Exists(markerFile)
    THEN IF markerFile.kind = "unreadable"
         THEN [context |-> ctx, raised |-> TRUE]
         ELSE [context |->
                  [ctx EXCEPT !.currentProject = Trim(markerFile.content),
                              !.workspacePath = Cwd,
                              !.ticketsPath = PathJoin(Cwd, <<".","t","i","c","k","e","t","s">>)],
               raised |-> FALSE]
    ELSE LET result == ExecuteCommand(gitTop)
         IN  IF Truthy(result)
             THEN LET repoPath == Trim(result)
                      repoName == OrElse(LastSegment(repoPath), <<"g","e","n","e","r","a","l">>)
                  IN  [context |->
                          [ctx EXCEPT !.currentProject = repoName,
                                      !.workspacePath = repoPath,
                                      !.ticketsPath = PathJoin(repoPath, <<".","t","i","c","k","e","t","s">>)],
                       raised |-> FALSE]
             ELSE LET dirName == OrElse(LastSegment(Cwd), <<"g","e","n","e","r","a","l">>)
                  IN  [context |->
                          [ctx EXCEPT !.currentProject = dirName,
                                      !.workspacePath = Cwd],
                       raised |-> FALSE]

\* what JSON.parse(readFile(path)).currentFocus?.ticket evaluates to;
\* Undefined also when the read, the parse or the property access throws,
\* which the try block of lines 50-61 swallows
StateFileTicket(file) ==
    IF file.kind = "object" THEN file.ticket ELSE Undefined

\* StateStage assigning whatever the state file holds, a ticket or none
StateStageAssigning(ctx) ==
    LET file == stateFiles[OrElse(ctx.workspacePath, Cwd)]
    IN  IF file.kind = "object"
        THEN [ctx EXCEPT !.currentTicket = StateFileTicket(file)]
        ELSE ctx

\* detectContext, lines 49-61: the ticket of the state file
StateStage(ctx) ==
    LET file == stateFiles[OrElse(ctx.workspacePath, Cwd)]
    IN  IF Exists(file) /\ Truthy(StateFileTicket(file))
        THEN [ctx EXCEPT !.currentTicket = StateFileTicket(file)]
        ELSE ctx

\* detectContext, lines 63-71: the ticket of the branch name
BranchStage(ctx) ==
    LET branch == ExecuteCommand(gitBranch)
    IN  IF Truthy(branch) /\ TicketPattern(branch)
        THEN [ctx EXCEPT !.currentTicket = Trim(branch)]
        ELSE ctx

\* TicketStages with the branch consulted before the state file
TicketStagesSwapped(ctx) == StateStage(BranchStage(ctx))

\* detectContext, lines 49-71: the two ticket sources in their order
TicketStages(ctx) == BranchStage(StateStage(ctx))

\* ContextManager.detectContext: the context it leaves, and whether it threw
detectContext(ctx) ==
    LET p == ProjectStage(ctx)
    IN  IF p.raised THEN p
        ELSE [context |-> TicketStages(p.context), raised |-> FALSE]

\* formatTaskwarriorProject with the project consulted before the ticket
LabelProjectFirst(ctx) ==
    IF Truthy(ctx.currentProject) THEN ctx.currentProject
    ELSE IF Truthy(ctx.currentTicket) THEN ctx.currentTicket
    ELSE <<"g","e","n","e","r","a","l">>

\* ContextManager.formatTaskwarriorProject
formatTaskwarriorProject(ctx) ==
    IF Truthy(ctx.currentTicket) THEN ctx.currentTicket
    ELSE IF Truthy(ctx.currentProject) THEN ctx.currentProject
    ELSE <<"g","e","n","e","r","a","l">>

-----------------------------------------------------------------------------
(* Ticket directories *)

\* the tickets roots a context can name
TicketsRoots == {PathJoin(d, <<".","t","i","c","k","e","t","s">>) : d \in Dirs}

\* the ticket whose directory the file system can hold
TicketName == <<"D","R","X","-","9">>

ChecklistFiles ==
    {AbsentFile,
     TextFile(<<"-"," ","["," ","]"," ","A","\n","-"," ","["," ","]"," ","B">>),
     TextFile(<<"#"," ","M","R","\n","-"," ","[","x","]"," ","A","\n","-"," ","["," ","]"," ","B"," ","c","\n"," ","-"," ","["," ","]"," ","D","\n","-"," ","["," ","]"," ","\n">>)}

NotesFiles ==
    {AbsentFile,
     TextFile(<<"T","O","D","O",":"," ","n","1","\n","s","e","e"," ","x","\n","t","o","d","o"," ","n","2">>),
     TextFile(<<"a"," ","T","O","D","O"," ","b"," ","T","O","D","O",":"," ","c","\n","T","O","D","O","s","\n">>),
     TextFile(<<"T","O","D","O",":","\n","s","e","e"," ","d","o","c","\n">>)}

NoTicketDir ==
    [root |-> Undefined, checklist |-> AbsentFile, notes |-> AbsentFile]

\* the file system has no ticket directory, or the directory TicketName
\* under one tickets root, holding a checklist file, a notes file, or both
TicketDirs ==
    {NoTicketDir} \cup
    [root : TicketsRoots, checklist : ChecklistFiles, notes : NotesFiles]

\* the checklist file at path ticketsPath/ticket/mr-checklist.md
ChecklistAt(ticketsPath, ticket) ==
    IF ticketDir.root = ticketsPath /\ ticket = TicketName
    THEN ticketDir.checklist ELSE AbsentFile

\* the notes file at path ticketsPath/ticket/context.md
NotesAt(ticketsPath, ticket) ==
    IF ticketDir.root = ticketsPath /\ ticket = TicketName
    THEN ticketDir.notes ELSE AbsentFile

\* the characters `.` does not match
LineTerminators == {"\n", "\r"}

\* line.match(/^- \[ \] (.+)/): the capture, Undefined when there is no match
ChecklistMatch(line) ==
    LET rest == From(line, 7)
        n == SpanNot(rest, LineTerminators)
    IN  IF StartsWith(line, <<"-"," ","["," ","]"," ">>) /\ n >= 1
        THEN SubSeq(rest, 1, n)
        ELSE Undefined

\* getTicketTasks, lines 99-105: the loop over the lines of the checklist
RECURSIVE ChecklistTasks(_)
ChecklistTasks(lines) ==
    IF lines = <<>> THEN <<>>
    ELSE LET match == ChecklistMatch(Head(lines))
         IN  (IF match # Undefined THEN <<match>> ELSE <<>>)
                 \o ChecklistTasks(Tail(lines))

\* the characters [:\s] matches
TodoSeparators == SpaceChars \cup {":"}

\* /TODO[:\s]+(.+)/i tried at position i of s: [start, end] of the capture,
\* <<>> when it does not match there. The separator run is greedy and gives
\* characters back until one that `.` matches follows it.
TodoMatchAt(s, i) ==
    LET run == Span(From(s, i + 4), TodoSeparators)
        ks == {k \in 1..run :
                  /\ i + 4 + k <= Len(s)
                  /\ s[i + 4 + k] \notin LineTerminators}
    IN  IF StartsWithCI(From(s, i), <<"t","o","d","o">>) /\ ks # {}
        THEN LET k == CHOOSE x \in ks : \A y \in ks : y <= x
                 start == i + 4 + k
             IN  <<start, start + SpanNot(From(s, start), LineTerminators) - 1>>
        ELSE <<>>

\* content.matchAll(/TODO[:\s]+(.+)/gi), each capture trimmed: the scan
\* resumes after the end of the previous match
RECURSIVE TodoTasks(_, _)
TodoTasks(s, i) ==
    IF i > Len(s) THEN <<>>
    ELSE LET m == TodoMatchAt(s, i)
         IN  IF m = <<>> THEN TodoTasks(s, i + 1)
             ELSE <<Trim(SubSeq(s, m[1], m[2]))>> \o TodoTasks(s, m[2] + 1)

\* ContextManager.getTicketTasks: the tasks it returns, and whether it threw
getTicketTasks(ctx, ticket) ==
    IF ~Truthy(ctx.ticketsPath)
    THEN [tasks |-> <<>>, raised |-> FALSE]
    ELSE LET checklist == ChecklistAt(ctx.ticketsPath, ticket)
             notes == NotesAt(ctx.ticketsPath, ticket)
         IN  IF \/ checklist.kind = "unreadable"
                \/ notes.kind = "unreadable"
             THEN [tasks |-> <<>>, raised |-> TRUE]
             ELSE [tasks |->
                      (IF Exists(checklist)
                       THEN ChecklistTasks(Split(checklist.content, "\n"))
                       ELSE <<>>)
                      \o (IF Exists(notes)
                          THEN TodoTasks(notes.content, 1)
                          ELSE <<>>),
                   raised |-> FALSE]

-----------------------------------------------------------------------------
(* TaskwarriorBridge.parseNaturalLanguage *)

\* one entry of TASK_PATTERNS: /^(w1|w2|...)/i
Pattern(key, words) == [key |-> key, words |-> words]

\* Object.entries(TASK_PATTERNS), in declaration order
TASK_PATTERNS ==
    << Pattern(<<"a","d","d">>, <<<<"a","d","d">>, <<"c","r","e","a","t","e">>, <<"n","e","w">>, <<"m","a","k","e">>, <<"t","o","d","o">>, <<"t","a","s","k">>>>),
       Pattern(<<"l","i","s","t">>, <<<<"l","i","s","t">>, <<"s","h","o","w">>, <<"w","h","a","t">>, <<"t","a","s","k","s">>, <<"t","o","d","o","s">>>>),
       Pattern(<<"c","o","m","p","l","e","t","e">>, <<<<"d","o","n","e">>, <<"c","o","m","p","l","e","t","e">>, <<"f","i","n","i","s","h">>, <<"m","a","r","k">>, <<"c","h","e","c","k">>>>),
       Pattern(<<"m","o","d","i","f","y">>, <<<<"m","o","d","i","f","y">>, <<"c","h","a","n","g","e">>, <<"u","p","d","a","t","e">>, <<"e","d","i","t">>>>),
       Pattern(<<"d","e","l","e","t","e">>, <<<<"d","e","l","e","t","e">>, <<"r","e","m","o","v","e">>, <<"r","m">>>>),
       Pattern(<<"p","r","i","o","r","i","t","i","z","e">>,
               <<<<"p","r","i","o","r","i","t","i","z","e">>, <<"p","r","i","o","r","i","t","y">>, <<"u","r","g","e","n","t">>, <<"i","m","p","o","r","t","a","n","t">>>>),
       Pattern(<<"c","o","n","t","e","x","t">>, <<<<"w","h","e","r","e">>, <<"c","o","n","t","e","x","t">>, <<"p","r","o","j","e","c","t">>, <<"c","u","r","r","e","n","t">>>>),
       Pattern(<<"n","e","x","t">>, <<<<"n","e","x","t">>, <<"n","o","w">>, <<"f","o","c","u","s">>, <<"i","m","m","e","d","i","a","t","e">>>>) >>

\* the length of the text the pattern matches at the start of input: that of
\* the first alternative that matches, 0 when none does (no alternative is
\* empty)
RECURSIVE MatchLength(_, _)
MatchLength(words, input) ==
    IF words = <<>> THEN 0
    ELSE IF StartsWithCI(input, Head(words)) THEN Len(Head(words))
    ELSE MatchLength(Tail(words), input)

\* pattern.test(input)
PatternTest(pattern, input) == MatchLength(pattern.words, input) > 0

\* input.replace(pattern, '')
PatternRemove(pattern, input) ==
    From(input, MatchLength(pattern.words, input) + 1)

\* DefaultRequest with the query trimmed, as the residual of a match is
DefaultRequestTrimmed(input) == [action |-> <<"l","i","s","t">>, args |-> Trim(input)]

\* parseNaturalLanguage, lines 57-58: the request when no pattern matches
DefaultRequest(input) == [action |-> <<"l","i","s","t">>, args |-> input]

\* ScanFrom without the break: the last pattern that matches wins
RECURSIVE ScanLastFrom(_, _)
ScanLastFrom(input, i) ==
    IF i > Len(TASK_PATTERNS) THEN [action |-> <<"l","i","s","t">>, args |-> input]
    ELSE IF \E j \in (i + 1)..Len(TASK_PATTERNS) :
                PatternTest(TASK_PATTERNS[j], input)
         THEN ScanLastFrom(input, i + 1)
         ELSE IF PatternTest(TASK_PATTERNS[i], input)
              THEN [action |-> TASK_PATTERNS[i].key,
                    args |-> Trim(PatternRemove(TASK_PATTERNS[i], input))]
              ELSE [action |-> <<"l","i","s","t">>, args |-> input]

\* parseNaturalLanguage, lines 60-66: the loop over the patterns from entry
\* i on, left at the first pattern that matches
RECURSIVE ScanFrom(_, _)
ScanFrom(input, i) ==
    IF i > Len(TASK_PATTERNS) THEN DefaultRequest(input)
    ELSE IF PatternTest(TASK_PATTERNS[i], input)
         THEN [action |-> TASK_PATTERNS[i].key,
               args |-> Trim(PatternRemove(TASK_PATTERNS[i], input))]
         ELSE ScanFrom(input, i + 1)

\* parseNaturalLanguage, lines 57-66: the intent and the residual text
Classify(input) == ScanFrom(input, 1)

\* ProjectFilter scoped by the fallback chain of formatTaskwarriorProject
ProjectFilterByTicket(ctx) ==
    IF Truthy(ctx.currentTicket) \/ Truthy(ctx.currentProject)
    THEN <<"p","r","o","j","e","c","t",":">> \o formatTaskwarriorProject(ctx)
    ELSE <<>>

\* parseNaturalLanguage, line 70
ProjectFilter(ctx) ==
    IF Truthy(ctx.currentProject)
    THEN <<"p","r","o","j","e","c","t",":">> \o ctx.currentProject
    ELSE <<>>

\* args.match(/project[: ](\S+)/i) from position i on: the capture of the
\* leftmost match, Undefined when there is none
RECURSIVE ProjectMatch(_, _)
ProjectMatch(args, i) ==
    IF i > Len(args) THEN Undefined
    ELSE LET rest == From(args, i + 8)
             n == SpanNot(rest, SpaceChars)
         IN  IF /\ StartsWithCI(From(args, i), <<"p","r","o","j","e","c","t">>)
                /\ i + 7 <= Len(args)
                /\ args[i + 7] \in {":", " "}
                /\ n >= 1
             THEN SubSeq(rest, 1, n)
             ELSE ProjectMatch(args, i + 1)

\* parseNaturalLanguage, lines 77-89: the argument of a list command
ListArgs(args, projectFilter) ==
    IF Includes(args, <<"t","o","d","a","y">>) \/ Includes(args, <<"n","o","w">>)
    THEN Trim(<<"d","u","e",":","t","o","d","a","y"," ">> \o projectFilter)
    ELSE IF Includes(args, <<"u","r","g","e","n","t">>) \/ Includes(args, <<"h","i","g","h">>)
    THEN Trim(<<"p","r","i","o","r","i","t","y",":","H"," ">> \o projectFilter)
    ELSE IF Includes(args, <<"p","r","o","j","e","c","t">>)
    THEN LET projectMatch == ProjectMatch(args, 1)
         IN  IF projectMatch # Undefined
             THEN <<"p","r","o","j","e","c","t",":">> \o projectMatch
             ELSE <<>>
    ELSE projectFilter

\* DigitMatch for /\d/: the leftmost digit alone
DigitMatchOne(args) ==
    LET p == SpanNot(args, DigitChars)
    IN  IF p = Len(args) THEN Undefined ELSE <<args[p + 1]>>

\* args.match(/\d+/): the leftmost run of digits, Undefined when there is none
DigitMatch(args) ==
    LET p == SpanNot(args, DigitChars)
    IN  IF p = Len(args) THEN Undefined
        ELSE SubSeq(args, p + 1, p + Span(From(args, p + 1), DigitChars))

\* parseNaturalLanguage, lines 91-96: the argument of a done command
CompleteArgs(args) ==
    LET taskIdMatch == DigitMatch(args)
    IN  IF taskIdMatch # Undefined THEN taskIdMatch ELSE <<"1">>

\* parseNaturalLanguage, lines 73-106: the command of an intent
Synthesize(action, args, ctx) ==
    LET projectFilter == ProjectFilter(ctx)
    IN  CASE action = <<"a","d","d">> -> [action |-> <<"a","d","d">>, args |-> args]
          [] action = <<"l","i","s","t">> ->
                [action |-> <<"l","i","s","t">>, args |-> ListArgs(args, projectFilter)]
          [] action = <<"c","o","m","p","l","e","t","e">> ->
                [action |-> <<"d","o","n","e">>, args |-> CompleteArgs(args)]
          [] action = <<"n","e","x","t">> -> [action |-> <<"n","e","x","t">>, args |-> projectFilter]
          [] action = <<"c","o","n","t","e","x","t">> ->
                [action |-> <<"c","o","n","t","e","x","t">>,
                 args |-> IF Truthy(args) THEN args ELSE <<"l","i","s","t">>]
          [] OTHER -> [action |-> action, args |-> args]

\* TaskwarriorBridge.parseNaturalLanguage: the classification, the context
\* the detection leaves, and the command; it throws when the detection does
parseNaturalLanguage(ctx, input) ==
    LET request == Classify(input)
        detected == detectContext(ctx)
    IN  [intent |-> request.action,
         residual |-> request.args,
         context |-> detected.context,
         raised |-> detected.raised,
         command |-> IF detected.raised
                     THEN [action |-> Undefined, args |-> Undefined]
                     ELSE Synthesize(request.action, request.args,
                                     detected.context)]

-----------------------------------------------------------------------------
(* TaskwarriorBridge.formatOutput *)

\* line.match(/^\s*ID\s+/)
HeaderLine(line) ==
    LET rest == From(line, Span(line, SpaceChars) + 1)
    IN  StartsWith(rest, <<"I","D">>) /\ Span(From(rest, 3), SpaceChars) >= 1

\* line.match(/^\s*\d+\s+/)
TaskRow(line) ==
    LET rest == From(line, Span(line, SpaceChars) + 1)
        d == Span(rest, DigitChars)
    IN  d >= 1 /\ Span(From(rest, d + 1), SpaceChars) >= 1

\* formatOutput, line 111: the lines that are not blank
NonBlankLines(output) ==
    SelectSeq(Split(output, "\n"), LAMBDA line : Trim(line) # <<>>)

\* CollectRows without the inTaskList test on a row: rows before the header
\* line are collected too
RECURSIVE CollectRowsAnywhere(_, _)
CollectRowsAnywhere(lines, inTaskList) ==
    IF lines = <<>> THEN <<>>
    ELSE LET line == Head(lines)
             row == IF TaskRow(line) THEN <<Trim(line)>> ELSE <<>>
         IN  IF HeaderLine(line) THEN CollectRowsAnywhere(Tail(lines), TRUE)
             ELSE IF Includes(line, <<"t","a","s","k","s">>) /\ ~inTaskList THEN row
             ELSE row \o CollectRowsAnywhere(Tail(lines), inTaskList)

\* formatOutput, lines 118-129: the rows the loop collects from `lines` on,
\* entered with the flag inTaskList
RECURSIVE CollectRows(_, _)
CollectRows(lines, inTaskList) ==
    IF lines = <<>> THEN <<>>
    ELSE LET line == Head(lines)
             row == IF inTaskList /\ TaskRow(line) THEN <<Trim(line)>> ELSE <<>>
         IN  IF HeaderLine(line) THEN CollectRows(Tail(lines), TRUE)
             ELSE IF Includes(line, <<"t","a","s","k","s">>) /\ ~inTaskList THEN row
             ELSE row \o CollectRows(Tail(lines), inTaskList)

\* TaskwarriorBridge.formatOutput
formatOutput(output, action) ==
    LET tasks == IF action = <<"l","i","s","t">> \/ action = <<"n","e","x","t">>
                 THEN CollectRows(NonBlankLines(output), FALSE)
                 ELSE <<>>
    IN  IF Len(tasks) > 0
        THEN <<"C","u","r","r","e","n","t"," ","t","a","s","k","s",":","\n">> \o JoinWith(tasks, <<"\n">>)
        ELSE output

-----------------------------------------------------------------------------
(* The inputs of the operations *)

\* the words queries are made of
QueryWords ==
    {<<"a","d","d">>, <<"t","a","s","k","s">>, <<"S","h","o","w">>, <<"d","o","n","e">>, <<"n","e","x","t">>, <<"p","r","o","j","e","c","t">>, <<"p","r","o","j","e","c","t",":","x","1">>,
     <<"t","o","d","a","y">>, <<"u","r","g","e","n","t">>, <<"t","1","2","b","3">>, <<"m","e">>}

\* the sequences of 1..n elements of set S
SeqsUpTo(S, n) == UNION {[1..k -> S] : k \in 1..n}

\* words separated by one space, with or without a leading space
Queries ==
    {lead \o JoinWith(ws, <<" ">>) :
        lead \in {<<>>, <<" ">>}, ws \in SeqsUpTo(QueryWords, MaxWords)}

\* the lines tool outputs are made of
OutputLines ==
    {<<"I","D"," ","D","e","s","c">>, <<"1"," ","m","i","l","k">>, <<" ","1","2"," ","t","e","a"," ">>, <<"2"," ","t","a","s","k","s">>, <<"N","o"," ","t","a","s","k","s">>, <<>>}

RawOutputs == {JoinWith(ls, <<"\n">>) : ls \in SeqsUpTo(OutputLines, MaxLines)}

\* the actions formatOutput is called with
FormatActions == {<<"l","i","s","t">>, <<"n","e","x","t">>, <<"d","o","n","e">>, <<"a","d","d">>}

-----------------------------------------------------------------------------
(* The tool requests of the server *)

\* no response was sent
NoResponse == [kind |-> "none", text |-> <<>>]

\* no request is being handled, and none was
\* task_smart_add called with a description alone
NoOptions ==
    [project |-> Undefined, priority |-> Undefined, due |-> Undefined,
     tags |-> <<>>]

\* no request is being handled, and none was. A request holds the tool and
\* its arguments, the position of its handler, the action of a parsed query,
\* the commands the handler has still to run, the commands it ran with
\* their outcomes and outputs, the tasks and result lines of a ticket
\* import, and the response.
Idle ==
    [tool |-> "none", pc |-> "idle", arg |-> <<>>, options |-> NoOptions,
     action |-> <<>>, pending |-> <<>>, executed |-> <<>>, outcomes |-> <<>>,
     outputs |-> <<>>, tasks |-> <<>>, results |-> <<>>,
     response |-> NoResponse]

-----------------------------------------------------------------------------
(* The operations *)

NoCall == [op |-> "none"]

\* a request to parse `input` has arrived
Request(input) == [op |-> "request", input |-> input]

\* a tool output is about to be formatted for a command's action
FormatRequest(output, action) ==
    [op |-> "formatRequest", output |-> output, action |-> action]

DetectContext ==
    LET r == detectContext(context)
    IN  /\ context' = r.context
        /\ call' = [op |-> "detectContext", raised |-> r.raised]
        /\ UNCHANGED <<envVars, serverVars>>

SetCurrentTicket(ticket) ==
    /\ context' = [context EXCEPT !.currentTicket = ticket]
    /\ call' = [op |-> "setCurrentTicket", ticket |-> ticket]
    /\ UNCHANGED <<envVars, serverVars>>

GetTicketTasks(ticket) ==
    LET r == getTicketTasks(context, ticket)
    IN  /\ call' = [op |-> "getTicketTasks", ticket |-> ticket,
                    tasks |-> r.tasks, raised |-> r.raised]
        /\ UNCHANGED <<context, envVars, serverVars>>

ParseNaturalLanguage ==
    /\ call.op = "request"
    /\ LET r == parseNaturalLanguage(context, call.input)
       IN  /\ context' = r.context
           /\ call' = [op |-> "parseNaturalLanguage", input |-> call.input,
                       intent |-> r.intent, residual |-> r.residual,
                       raised |-> r.raised, command |-> r.command]
    /\ UNCHANGED <<envVars, serverVars>>

FormatOutput ==
    /\ call.op = "formatRequest"
    /\ call' = [op |-> "formatOutput", output |-> call.output,
                action |-> call.action,
                result |-> formatOutput(call.output, call.action)]
    /\ UNCHANGED <<context, envVars, serverVars>>

\* the marker file is created, rewritten or removed
ChangeMarker(file) ==
    /\ markerFile' = file
    /\ call' = NoCall
    /\ UNCHANGED <<stateFiles, gitTop, gitBranch, ticketDir, context, serverVars>>

\* the state file of a directory is created, rewritten or removed
ChangeStateFile(dir, file) ==
    /\ stateFiles' = [stateFiles EXCEPT ![dir] = file]
    /\ call' = NoCall
    /\ UNCHANGED <<markerFile, gitTop, gitBranch, ticketDir, context, serverVars>>

\* the repository, or its branch, changes
ChangeGit(top, branch) ==
    /\ gitTop' = top
    /\ gitBranch' = branch
    /\ call' = NoCall
    /\ UNCHANGED <<markerFile, stateFiles, ticketDir, context, serverVars>>

-----------------------------------------------------------------------------
(* Specifications *)

NoStateFiles == [d \in Dirs |-> StateFile("absent", Undefined)]

\* the context manager: detections and ticket overrides in an environment
\* that changes between them
Init ==
    /\ markerFile \in MarkerFiles
    /\ stateFiles = NoStateFiles
    /\ gitTop \in GitTops
    /\ gitBranch \in GitBranches
    /\ ticketDir = NoTicketDir
    /\ context = EmptyContext
    /\ startup = "done"
    /\ toolCall = Idle
    /\ call = NoCall

Next ==
    \/ DetectContext
    \/ \E t \in TicketArgs : SetCurrentTicket(t)
    \/ \E f \in MarkerFiles : ChangeMarker(f)
    \/ \E d \in Dirs, f \in StateFileValues : ChangeStateFile(d, f)
    \/ \E top \in GitTops, b \in GitBranches : ChangeGit(top, b)

Spec == Init /\ [][Next]_vars

\* one natural-language request, parsed in a fixed environment
InitParse ==
    /\ markerFile \in {AbsentFile, UnreadableFile, TextFile(<<"w","e","b">>), TextFile(<<" ","\n">>)}
    /\ stateFiles = NoStateFiles
    /\ gitTop = <<"/","r","\n">>
    /\ gitBranch \in {GitFails, <<"D","R","X","-","9","\n">>}
    /\ ticketDir = NoTicketDir
    /\ context = EmptyContext
    /\ startup = "done"
    /\ toolCall = Idle
    /\ \E q \in Queries : call = Request(q)

NextParse == ParseNaturalLanguage

SpecParse == InitParse /\ [][NextParse]_vars

\* the tool outputs formatOutput is applied to
InitFormat ==
    /\ markerFile = AbsentFile
    /\ stateFiles = NoStateFiles
    /\ gitTop = GitFails
    /\ gitBranch = GitFails
    /\ ticketDir = NoTicketDir
    /\ context = EmptyContext
    /\ startup = "done"
    /\ toolCall = Idle
    /\ \E o \in RawOutputs, a \in FormatActions : call = FormatRequest(o, a)

NextFormat == FormatOutput

SpecFormat == InitFormat /\ [][NextFormat]_vars

\* ticket tasks read after a detection, for every ticket directory
InitTickets ==
    /\ markerFile \in {AbsentFile, TextFile(<<"w","e","b">>)}
    /\ stateFiles = NoStateFiles
    /\ gitTop \in GitTops
    /\ gitBranch = GitFails
    /\ ticketDir \in TicketDirs
    /\ context = EmptyContext
    /\ startup = "done"
    /\ toolCall = Idle
    /\ call = NoCall

NextTickets ==
    \/ DetectContext
    \/ \E t \in {TicketName, <<"T","-","2">>} : GetTicketTasks(t)

SpecTickets == InitTickets /\ [][NextTickets]_vars


-----------------------------------------------------------------------------
(* ContextManager.enhanceTaskDescription and the project label *)

\* the greatest number of times a description is enhanced in a row
MaxApplications == 2

\* enhanceTaskDescription without the test that the ticket is already in the
\* description
EnhanceAlwaysTag(ctx, description) ==
    JoinWith(<<description>>
             \o (IF Truthy(ctx.currentTicket)
                 THEN <<<<"+">> \o ctx.currentTicket>> ELSE <<>>)
             \o (IF /\ Truthy(ctx.currentProject)
                    /\ ~Includes(description, <<"p","r","o","j","e","c","t",":">>)
                 THEN <<<<"p","r","o","j","e","c","t",":">> \o ctx.currentProject>> ELSE <<>>),
             <<" ">>)

\* ContextManager.enhanceTaskDescription
enhanceTaskDescription(ctx, description) ==
    JoinWith(<<description>>
             \o (IF /\ Truthy(ctx.currentTicket)
                    /\ ~Includes(description, ctx.currentTicket)
                 THEN <<<<"+">> \o ctx.currentTicket>> ELSE <<>>)
             \o (IF /\ Truthy(ctx.currentProject)
                    /\ ~Includes(description, <<"p","r","o","j","e","c","t",":">>)
                 THEN <<<<"p","r","o","j","e","c","t",":">> \o ctx.currentProject>> ELSE <<>>),
             <<" ">>)

\* the descriptions enhanceTaskDescription is applied to
Descriptions ==
    {<<"A">>, <<"f","i","x"," ","D","R","X","-","9"," ","n","o","w">>, <<"B"," ","p","r","o","j","e","c","t",":","x">>, <<"+","D","R","X","-","9"," ","c"," ","p","r","o","j","e","c","t",":","w","e","b">>, <<"d","r","x","-","9">>,
     <<>>}

\* the contexts enhanceTaskDescription is applied in
EnhanceContexts ==
    {[EmptyContext EXCEPT !.currentTicket = t, !.currentProject = p] :
        t \in {Undefined, <<>>, <<"D","R","X","-","9">>}, p \in {Undefined, <<>>, <<"w","e","b">>}}

\* a description is about to be enhanced
EnhanceRequest(description) ==
    [op |-> "enhanceRequest", original |-> description,
     result |-> description, applied |-> 0]

\* enhanceTaskDescription applied to the result of the application before
EnhanceTaskDescription ==
    /\ call.op \in {"enhanceRequest", "enhanceTaskDescription"}
    /\ call.applied < MaxApplications
    /\ call' = [op |-> "enhanceTaskDescription", original |-> call.original,
                description |-> call.result,
                result |-> enhanceTaskDescription(context, call.result),
                applied |-> call.applied + 1]
    /\ UNCHANGED <<context, envVars, serverVars>>

\* formatTaskwarriorProject called; `detected` tells whether it follows a
\* detection that returned
FormatTaskwarriorProject ==
    /\ call' = [op |-> "formatTaskwarriorProject",
                detected |-> (call.op = "detectContext" /\ ~call.raised),
                result |-> formatTaskwarriorProject(context)]
    /\ UNCHANGED <<context, envVars, serverVars>>

\* descriptions enhanced again and again in a fixed context
InitEnhance ==
    /\ markerFile = AbsentFile
    /\ stateFiles = NoStateFiles
    /\ gitTop = GitFails
    /\ gitBranch = GitFails
    /\ ticketDir = NoTicketDir
    /\ context \in EnhanceContexts
    /\ startup = "done"
    /\ toolCall = Idle
    /\ \E d \in Descriptions : call = EnhanceRequest(d)

NextEnhance == EnhanceTaskDescription

SpecEnhance == InitEnhance /\ [][NextEnhance]_vars

\* the project label asked for between detections and ticket overrides, in
\* a fixed environment
InitLabel ==
    /\ markerFile \in MarkerFiles
    /\ stateFiles \in {NoStateFiles,
                       [NoStateFiles EXCEPT ![Cwd] = StateFile("object", <<"Q","A","-","3">>)]}
    /\ gitTop \in {GitFails, <<"/","r","\n">>}
    /\ gitBranch \in GitBranches
    /\ ticketDir = NoTicketDir
    /\ context = EmptyContext
    /\ startup = "done"
    /\ toolCall = Idle
    /\ call = NoCall

NextLabel ==
    \/ DetectContext
    \/ \E t \in TicketArgs : SetCurrentTicket(t)
    \/ FormatTaskwarriorProject

SpecLabel == InitLabel /\ [][NextLabel]_vars

\* the queries that begin with a declared trigger word: the word alone, and
\* the word followed by another word
TriggerWords ==
    UNION {{TASK_PATTERNS[k].words[j] : j \in 1..Len(TASK_PATTERNS[k].words)} :
              k \in 1..Len(TASK_PATTERNS)}

TriggerQueries == TriggerWords \cup {w \o <<" ","m","e">> : w \in TriggerWords}

\* one request that begins with a trigger word
InitTriggers ==
    /\ markerFile \in {AbsentFile, TextFile(<<"w","e","b">>)}
    /\ stateFiles = NoStateFiles
    /\ gitTop = <<"/","r","\n">>
    /\ gitBranch \in {GitFails, <<"D","R","X","-","9","\n">>}
    /\ ticketDir = NoTicketDir
    /\ context = EmptyContext
    /\ startup = "done"
    /\ toolCall = Idle
    /\ \E q \in TriggerQueries : call = Request(q)

NextTriggers == ParseNaturalLanguage

SpecTriggers == InitTriggers /\ [][NextTriggers]_vars

-----------------------------------------------------------------------------
(* TaskwarriorBridge.execute and the tool handlers of TaskwarriorMCPServer *)

\* characters outside ASCII, one element each
CheckMark == <<"{check mark}">>

CrossMark == <<"{ballot x}">>

RedCircle == <<"{red circle}">>

YellowCircle == <<"{yellow circle}">>

OrangeCircle == <<"{orange circle}">>

WhiteCircle == <<"{white circle}">>

\* what running `task <command>` comes to: stdout, or the message of the
\* error execAsync rejects with
Succeeds(stdout) == [ok |-> TRUE, text |-> stdout]

Fails(message) == [ok |-> FALSE, text |-> message]

CommandOutcomes == {Succeeds(<<"I","D"," ","D","e","s","c","\n","1"," ","m","i","l","k">>), Fails(<<"C","o","m","m","a","n","d"," ","f","a","i","l","e","d">>)}

\* TaskwarriorBridge.execute: the stdout it returns, or the message of the
\* Error it throws
execute(command, outcome) ==
    IF outcome.ok
    THEN [threw |-> FALSE, value |-> outcome.text]
    ELSE [threw |-> TRUE, value |-> <<"T","a","s","k","w","a","r","r","i","o","r"," ","e","r","r","o","r",":"," ">> \o outcome.text]

\* ContextManager.listTickets: the directories of the tickets root whose
\* name starts with DRX-
listTickets(ctx) ==
    IF ~Truthy(ctx.ticketsPath) THEN <<>>
    ELSE IF ticketDir.root = ctx.ticketsPath /\ StartsWith(TicketName, <<"D","R","X","-">>)
    THEN <<TicketName>>
    ELSE <<>>

\* a response with a text content
Success(text) == [kind |-> "success", text |-> text]

\* the McpError the catch of the handler throws, with error.message
Failure(message) == [kind |-> "error", text |-> message]

\* the message of the error reading an unreadable file rejects with
ReadError == <<"E","I","S","D","I","R",":"," ","i","l","l","e","g","a","l"," ","o","p","e","r","a","t","i","o","n"," ","o","n"," ","a"," ","d","i","r","e","c","t","o","r","y",","," ","r","e","a","d">>

\* task_context_set: its two commands
ContextSetCommands(c) ==
    <<<<"c","o","n","t","e","x","t"," ","d","e","f","i","n","e"," ">> \o c \o <<" ","p","r","o","j","e","c","t",":">> \o c \o <<" ","o","r"," ","+">> \o c,
      <<"c","o","n","t","e","x","t"," ">> \o c>>

\* params.tags.forEach(tag => command += ` +${tag}`)
RECURSIVE TagArgs(_)
TagArgs(tags) ==
    IF tags = <<>> THEN <<>>
    ELSE <<" ","+">> \o Head(tags) \o TagArgs(Tail(tags))

\* task_smart_add: its command
SmartAddCommand(description, options) ==
    <<"a","d","d"," ","\"">> \o description \o <<"\"">>
        \o (IF Truthy(options.project)
            THEN <<" ","p","r","o","j","e","c","t",":">> \o options.project ELSE <<>>)
        \o (IF Truthy(options.priority)
            THEN <<" ","p","r","i","o","r","i","t","y",":">> \o options.priority ELSE <<>>)
        \o (IF Truthy(options.due) THEN <<" ","d","u","e",":">> \o options.due ELSE <<>>)
        \o TagArgs(options.tags)

\* task_eisenhower: its four commands
EisenhowerCommands ==
    <<<<"p","r","i","o","r","i","t","y",":","H"," ","d","u","e",".","b","e","f","o","r","e",":","t","o","m","o","r","r","o","w"," ","l","i","s","t">>,
      <<"p","r","i","o","r","i","t","y",":","H"," ","d","u","e",".","a","f","t","e","r",":","t","o","d","a","y"," ","l","i","s","t">>,
      <<"p","r","i","o","r","i","t","y",":","M",",","L"," ","d","u","e",".","b","e","f","o","r","e",":","t","o","m","o","r","r","o","w"," ","l","i","s","t">>,
      <<"p","r","i","o","r","i","t","y",":","L"," ","d","u","e",".","a","f","t","e","r",":","t","o","d","a","y"," ","l","i","s","t">>>>

\* task_where_am_i: the command that lists the tasks of the context
WhereCommand(ctx) ==
    IF Truthy(ctx.currentTicket) THEN <<"+">> \o ctx.currentTicket \o <<" ","l","i","s","t">>
    ELSE IF Truthy(ctx.currentProject)
    THEN <<"p","r","o","j","e","c","t",":">> \o ctx.currentProject \o <<" ","l","i","s","t">>
    ELSE <<"n","e","x","t"," ","l","i","m","i","t",":","5">>

\* task_where_am_i: the text of the response
WhereText(ctx, taskList) ==
    LET contextInfo ==
            (IF Truthy(ctx.currentTicket)
             THEN <<<<"C","u","r","r","e","n","t"," ","T","i","c","k","e","t",":"," ">> \o ctx.currentTicket>> ELSE <<>>)
            \o (IF Truthy(ctx.currentProject)
                THEN <<<<"C","u","r","r","e","n","t"," ","P","r","o","j","e","c","t",":"," ">> \o ctx.currentProject>> ELSE <<>>)
            \o (IF Truthy(ctx.workspacePath)
                THEN <<<<"W","o","r","k","s","p","a","c","e",":"," ">> \o ctx.workspacePath>> ELSE <<>>)
        tickets == listTickets(ctx)
        ticketInfo ==
            IF Len(tickets) > 0
            THEN <<"\n","A","v","a","i","l","a","b","l","e"," ","T","i","c","k","e","t","s",":","\n">>
                     \o JoinWith([i \in 1..Len(tickets) |-> <<" "," ","-"," ">> \o tickets[i]],
                                 <<"\n">>)
            ELSE <<>>
    IN  <<"C","u","r","r","e","n","t"," ","C","o","n","t","e","x","t",":","\n">> \o JoinWith(contextInfo, <<"\n">>) \o <<"\n","\n">>
            \o <<"T","a","s","k","s"," ","f","o","r"," ","c","u","r","r","e","n","t"," ","c","o","n","t","e","x","t",":","\n">> \o taskList
            \o ticketInfo
            \o <<"\n","\n","S","u","g","g","e","s","t","e","d"," ","a","c","t","i","o","n","s",":","\n">>
            \o <<"-"," ","U","s","e"," ","\"","t","a","s","k","_","n","a","t","u","r","a","l","\""," ","w","i","t","h"," ","q","u","e","r","i","e","s"," ","l","i","k","e"," ","\"","w","h","a","t"," ","s","h","o","u","l","d"," ","I"," ","w","o","r","k"," ","o","n"," ","n","e","x","t","\"","\n">>
            \o <<"-"," ","U","s","e"," ","\"","t","a","s","k","_","t","i","c","k","e","t","_","s","y","n","c","\""," ","t","o"," ","i","m","p","o","r","t"," ","t","a","s","k","s"," ","f","r","o","m"," ","a"," ","t","i","c","k","e","t","\n">>
            \o <<"-"," ","U","s","e"," ","\"","t","a","s","k","_","s","m","a","r","t","_","a","d","d","\""," ","t","o"," ","a","d","d"," ","c","o","n","t","e","x","t","-","a","w","a","r","e"," ","t","a","s","k","s">>

\* task_eisenhower: the text of the response
EisenhowerText(outputs) ==
    <<"E","i","s","e","n","h","o","w","e","r"," ","M","a","t","r","i","x",":","\n","\n">>
        \o RedCircle \o <<" ","U","R","G","E","N","T"," ","&"," ","I","M","P","O","R","T","A","N","T"," ","(","D","o"," ","F","i","r","s","t",")",":","\n">>
        \o outputs[1] \o <<"\n","\n">>
        \o YellowCircle \o <<" ","N","O","T"," ","U","R","G","E","N","T"," ","&"," ","I","M","P","O","R","T","A","N","T"," ","(","S","c","h","e","d","u","l","e",")",":","\n">>
        \o outputs[2] \o <<"\n","\n">>
        \o OrangeCircle \o <<" ","U","R","G","E","N","T"," ","&"," ","N","O","T"," ","I","M","P","O","R","T","A","N","T"," ","(","D","e","l","e","g","a","t","e",")",":","\n">>
        \o outputs[3] \o <<"\n","\n">>
        \o WhiteCircle \o <<" ","N","O","T"," ","U","R","G","E","N","T"," ","&"," ","N","O","T"," ","I","M","P","O","R","T","A","N","T"," ","(","E","l","i","m","i","n","a","t","e",")",":","\n">>
        \o outputs[4]

\* the text of the response of a handler whose commands all ran
ResponseText(req, ctx) ==
    CASE req.tool = "task_natural" ->
             formatOutput(req.outputs[1], req.action)
      [] req.tool = "task_raw" -> req.outputs[1]
      [] req.tool = "task_context_set" ->
             <<"C","o","n","t","e","x","t"," ","s","e","t"," ","t","o",":"," ">> \o req.arg \o <<"\n">> \o req.outputs[1]
      [] req.tool = "task_smart_add" ->
             <<"T","a","s","k"," ","a","d","d","e","d"," ","s","u","c","c","e","s","s","f","u","l","l","y",":","\n">> \o req.outputs[1]
      [] req.tool = "task_eisenhower" -> EisenhowerText(req.outputs)
      [] req.tool = "task_where_am_i" -> WhereText(ctx, req.outputs[1])

\* AfterExecute with a failure recorded as an output, the handler going on
AfterExecuteContinuing(req, outcome, ctx) ==
    LET r == execute(Head(req.pending), outcome)
        got == [req EXCEPT !.executed = Append(@, Head(req.pending)),
                           !.outcomes = Append(@, outcome.ok),
                           !.pending = Tail(@),
                           !.outputs = Append(@, r.value)]
    IN  IF got.pending = <<>>
        THEN [got EXCEPT !.pc = "done",
                         !.response = Success(ResponseText(got, ctx))]
        ELSE got

\* the handler after `await this.bridge.execute(...)` of its next command:
\* a throw leaves the switch for the catch of line 523, which answers with
\* the message; else the handler goes on to its next command, or answers
AfterExecute(req, outcome, ctx) ==
    LET r == execute(Head(req.pending), outcome)
        ran == [req EXCEPT !.executed = Append(@, Head(req.pending)),
                           !.outcomes = Append(@, outcome.ok),
                           !.pending = Tail(@)]
        got == [ran EXCEPT !.outputs = Append(@, r.value)]
    IN  IF r.threw
        THEN [ran EXCEPT !.pc = "done", !.response = Failure(r.value)]
        ELSE IF got.pending = <<>>
        THEN [got EXCEPT !.pc = "done",
                         !.response = Success(ResponseText(got, ctx))]
        ELSE got

\* AfterTaskAttempt without the try block around the execution
TaskAttemptAborting(req, outcome, ctx) ==
    LET taskDescription == req.tasks[Len(req.results) + 1]
        enhancedDesc == enhanceTaskDescription(ctx, taskDescription)
        command == <<"a","d","d"," ">> \o enhancedDesc
        r == execute(command, outcome)
        ran == [req EXCEPT !.executed = Append(@, command),
                           !.outcomes = Append(@, outcome.ok)]
    IN  IF r.threw
        THEN [ran EXCEPT !.pc = "done", !.response = Failure(r.value)]
        ELSE [ran EXCEPT !.results =
                             Append(@, CheckMark \o <<" ","A","d","d","e","d",":"," ">> \o taskDescription)]

\* task_ticket_sync, lines 443-451: one turn of the loop over the tasks
AfterTaskAttempt(req, outcome, ctx) ==
    LET taskDescription == req.tasks[Len(req.results) + 1]
        enhancedDesc == enhanceTaskDescription(ctx, taskDescription)
        command == <<"a","d","d"," ">> \o enhancedDesc
        r == execute(command, outcome)
        ran == [req EXCEPT !.executed = Append(@, command),
                           !.outcomes = Append(@, outcome.ok)]
    IN  IF r.threw
        THEN [ran EXCEPT !.results =
                             Append(@, CrossMark \o <<" ","F","a","i","l","e","d",":"," ">> \o taskDescription
                                           \o <<" ","-"," ">> \o r.value)]
        ELSE [ran EXCEPT !.results =
                             Append(@, CheckMark \o <<" ","A","d","d","e","d",":"," ">> \o taskDescription)]

\* task_ticket_sync, lines 453-471: the text of the response
SyncText(ticket, results) ==
    IF Len(results) = 0
    THEN <<"N","o"," ","t","a","s","k","s"," ","f","o","u","n","d"," ","f","o","r"," ","t","i","c","k","e","t"," ">> \o ticket \o <<"."," ","M","a","k","e"," ","s","u","r","e"," ",".","t","i","c","k","e","t","s","/">>
             \o ticket \o <<"/","m","r","-","c","h","e","c","k","l","i","s","t",".","m","d"," ","e","x","i","s","t","s",".">>
    ELSE <<"S","y","n","c","e","d"," ","t","a","s","k","s"," ","f","o","r"," ">> \o ticket \o <<":","\n">> \o JoinWith(results, <<"\n">>)

-----------------------------------------------------------------------------
(* The server: the detection its constructor starts, and its requests, one
   at a time. The detection of a request is taken as one step; the
   detection of the constructor, which no caller waits for, is taken stage
   by stage, each stage writing the context after its awaits. *)

\* the arguments of the tools
ServerQueries == {<<"S","h","o","w"," ","m","e">>, <<"d","o","n","e"," ","3">>, <<"n","e","x","t">>}

RawCommands == {<<"l","i","s","t">>}

ContextNames == {<<"w","o","r","k">>}

SmartAdds ==
    {[description |-> <<"m","i","l","k">>, options |-> NoOptions],
     [description |-> <<"t","e","a">>,
      options |-> [project |-> <<"h","o","m","e">>, priority |-> <<"H">>, due |-> <<"t","o","d","a","y">>,
                   tags |-> <<<<"a">>, <<"b">>>>]]}

SyncTickets == {TicketName, <<"T","-","2">>}

\* a request arrives while no other is being handled
Free == toolCall.pc \in {"idle", "done"}

\* constructor, line 166: the project stage of the detection
StartupProject ==
    /\ startup = "project"
    /\ LET p == ProjectStage(context)
       IN  /\ context' = p.context
           /\ startup' = IF p.raised THEN "done" ELSE "state"
    /\ UNCHANGED <<envVars, call, toolCall>>

\* constructor, line 166: the state-file stage of the detection
StartupState ==
    /\ startup = "state"
    /\ context' = StateStage(context)
    /\ startup' = "branch"
    /\ UNCHANGED <<envVars, call, toolCall>>

\* constructor, line 166: the branch stage of the detection
StartupBranch ==
    /\ startup = "branch"
    /\ context' = BranchStage(context)
    /\ startup' = "done"
    /\ UNCHANGED <<envVars, call, toolCall>>

\* task_natural arrives: parseNaturalLanguage is called
NaturalStart(query) ==
    /\ Free
    /\ toolCall' = [Idle EXCEPT !.tool = "task_natural", !.arg = query,
                                !.pc = "parse"]
    /\ UNCHANGED <<envVars, context, call, startup>>

\* task_natural, lines 345-346: parseNaturalLanguage returns or throws
NaturalParsed ==
    /\ toolCall.pc = "parse"
    /\ LET r == parseNaturalLanguage(context, toolCall.arg)
       IN  /\ context' = r.context
           /\ toolCall' =
                 IF r.raised
                 THEN [toolCall EXCEPT !.pc = "done",
                                       !.response = Failure(ReadError)]
                 ELSE [toolCall EXCEPT
                          !.pc = "execute",
                          !.action = r.command.action,
                          !.pending = <<r.command.action \o <<" ">>
                                            \o r.command.args>>]
    /\ UNCHANGED <<envVars, call, startup>>

\* task_raw arrives
RawStart(command) ==
    /\ Free
    /\ toolCall' = [Idle EXCEPT !.tool = "task_raw", !.arg = command,
                                !.pc = "execute", !.pending = <<command>>]
    /\ UNCHANGED <<envVars, context, call, startup>>

\* task_context_set arrives
ContextSetStart(c) ==
    /\ Free
    /\ toolCall' = [Idle EXCEPT !.tool = "task_context_set", !.arg = c,
                                !.pc = "execute",
                                !.pending = ContextSetCommands(c)]
    /\ UNCHANGED <<envVars, context, call, startup>>

\* task_smart_add arrives
SmartAddStart(params) ==
    /\ Free
    /\ toolCall' =
          [Idle EXCEPT !.tool = "task_smart_add", !.arg = params.description,
                       !.options = params.options, !.pc = "execute",
                       !.pending = <<SmartAddCommand(params.description,
                                                     params.options)>>]
    /\ UNCHANGED <<envVars, context, call, startup>>

\* task_eisenhower arrives
EisenhowerStart ==
    /\ Free
    /\ toolCall' = [Idle EXCEPT !.tool = "task_eisenhower", !.pc = "execute",
                                !.pending = EisenhowerCommands]
    /\ UNCHANGED <<envVars, context, call, startup>>

\* task_ticket_sync arrives, lines 437-441: the ticket is set and
\* getTicketTasks is called, which reads ticketsPath before its first await
TicketSyncStart(ticket) ==
    /\ Free
    /\ context' = [context EXCEPT !.currentTicket = ticket]
    /\ LET r == getTicketTasks(context', ticket)
           req == [Idle EXCEPT !.tool = "task_ticket_sync", !.arg = ticket]
       IN  toolCall' =
               IF r.raised
               THEN [req EXCEPT !.pc = "done", !.response = Failure(ReadError)]
               ELSE [req EXCEPT !.pc = "sync", !.tasks = r.tasks]
    /\ UNCHANGED <<envVars, call, startup>>

\* task_ticket_sync, lines 443-451: the next task is enhanced and added
TicketSyncAdd(outcome) ==
    /\ toolCall.pc = "sync"
    /\ Len(toolCall.results) < Len(toolCall.tasks)
    /\ toolCall' = AfterTaskAttempt(toolCall, outcome, context)
    /\ UNCHANGED <<envVars, context, call, startup>>

\* task_ticket_sync, lines 453-471: the loop is over
TicketSyncRespond ==
    /\ toolCall.pc = "sync"
    /\ Len(toolCall.results) = Len(toolCall.tasks)
    /\ toolCall' =
          [toolCall EXCEPT
              !.pc = "done",
              !.response = Success(SyncText(toolCall.arg, toolCall.results))]
    /\ UNCHANGED <<envVars, context, call, startup>>

\* task_where_am_i arrives: detectContext is called
WhereStart ==
    /\ Free
    /\ toolCall' = [Idle EXCEPT !.tool = "task_where_am_i", !.pc = "detect"]
    /\ UNCHANGED <<envVars, context, call, startup>>

\* task_where_am_i, lines 475-496: detectContext returns or throws
WhereDetected ==
    /\ toolCall.pc = "detect"
    /\ LET r == detectContext(context)
       IN  /\ context' = r.context
           /\ toolCall' =
                 IF r.raised
                 THEN [toolCall EXCEPT !.pc = "done",
                                       !.response = Failure(ReadError)]
                 ELSE [toolCall EXCEPT !.pc = "execute",
                                       !.pending = <<WhereCommand(r.context)>>]
    /\ UNCHANGED <<envVars, call, startup>>

\* a tool the switch does not know, lines 520-524
UnknownStart(name) ==
    /\ Free
    /\ toolCall' = [Idle EXCEPT !.tool = "unknown", !.arg = name,
                                !.pc = "done",
                                !.response = Failure(<<"U","n","k","n","o","w","n"," ","t","o","o","l",":"," ">> \o name)]
    /\ UNCHANGED <<envVars, context, call, startup>>

\* the next command of the handler is run by TaskwarriorBridge.execute
Execute(outcome) ==
    /\ toolCall.pc = "execute"
    /\ toolCall' = AfterExecute(toolCall, outcome, context)
    /\ UNCHANGED <<envVars, context, call, startup>>

InitServer ==
    /\ markerFile \in {AbsentFile, UnreadableFile, TextFile(<<"w","e","b">>)}
    /\ stateFiles = NoStateFiles
    /\ gitTop = <<"/","r","/","a","p","p","\n">>
    /\ gitBranch \in {GitFails, <<"D","R","X","-","9","\n">>, <<"Q","A","-","1","2","-","f","i","x","\n">>}
    /\ ticketDir \in
          {[root |-> PathJoin(Cwd, <<".","t","i","c","k","e","t","s">>),
            checklist |-> TextFile(<<"-"," ","["," ","]"," ","A","\n","-"," ","["," ","]"," ","B">>), notes |-> n] :
              n \in {AbsentFile, TextFile(<<"T","O","D","O",":","\n","s","e","e"," ","d","o","c","\n">>)}}
    /\ context = EmptyContext
    /\ call = NoCall
    /\ startup = "project"
    /\ toolCall = Idle

NextServer ==
    \/ StartupProject
    \/ StartupState
    \/ StartupBranch
    \/ \E q \in ServerQueries : NaturalStart(q)
    \/ NaturalParsed
    \/ \E c \in RawCommands : RawStart(c)
    \/ \E c \in ContextNames : ContextSetStart(c)
    \/ \E p \in SmartAdds : SmartAddStart(p)
    \/ EisenhowerStart
    \/ \E t \in SyncTickets : TicketSyncStart(t)
    \/ \E o \in CommandOutcomes : TicketSyncAdd(o)
    \/ TicketSyncRespond
    \/ WhereStart
    \/ WhereDetected
    \/ \E n \in {<<"t","a","s","k","_","x">>} : UnknownStart(n)
    \/ \E o \in CommandOutcomes : Execute(o)

SpecServer == InitServer /\ [][NextServer]_vars
-----------------------------------------------------------------------------
(* Properties of parseNaturalLanguage, under SpecParse *)

\* a parseNaturalLanguage call has completed, returning or throwing
Parsed == call.op = "parseNaturalLanguage"

\* a parseNaturalLanguage call has returned a command
Synthesized == Parsed /\ ~call.raised

\* the intents in the order the patterns are declared in
IntentOrder ==
    <<<<"a","d","d">>, <<"l","i","s","t">>, <<"c","o","m","p","l","e","t","e">>, <<"m","o","d","i","f","y">>, <<"d","e","l","e","t","e">>, <<"p","r","i","o","r","i","t","i","z","e">>,
      <<"c","o","n","t","e","x","t">>, <<"n","e","x","t">>>>

\* the pattern declared for an intent
PatternOf(intent) ==
    LET i == CHOOSE k \in 1..Len(TASK_PATTERNS) : TASK_PATTERNS[k].key = intent
    IN  TASK_PATTERNS[i]

\* the positions in IntentOrder of the intents whose pattern matches the
\* start of the query
Matching(input) ==
    {i \in 1..Len(IntentOrder) : PatternTest(PatternOf(IntentOrder[i]), input)}

\* C1: when the start of the query is matched by the pattern of one intent or
\* more, the intent of the call is the matching intent declared first in the
\* order add, list, complete, modify, delete, prioritize, context, next.
C1_FirstTriggerWins ==
    Parsed /\ Matching(call.input) # {} =>
        \E i \in Matching(call.input) :
            /\ \A j \in Matching(call.input) : i <= j
            /\ call.intent = IntentOrder[i]

\* C1 witness: a query matched by the patterns of two intents ("tasks":
\* "task" of add, "tasks" of list) is classified as add.
C1_Witness ==
    /\ Parsed
    /\ Cardinality(Matching(call.input)) >= 2
    /\ call.intent = <<"a","d","d">>

\* C2: a query whose start no pattern matches is classified as list, and its
\* residual text is the query itself, character for character.
C2_DefaultIsList ==
    Parsed /\ Matching(call.input) = {} =>
        call.intent = <<"l","i","s","t">> /\ call.residual = call.input

\* C2 witness: an unmatched query with a leading space keeps the space.
C2_Witness ==
    /\ Parsed
    /\ Matching(call.input) = {}
    /\ Head(call.input) = " "
    /\ call.residual = call.input

\* the positions of the digits of a text
DigitPositions(s) == {i \in 1..Len(s) : s[i] \in DigitChars}

\* C3: the command of a query classified as complete has verb done; its
\* argument is the run of digits that starts at the first digit of the
\* residual text and ends before the next character that is no digit, and is
\* "1" when the residual text has no digit.
C3_CompleteArgument ==
    Synthesized /\ call.intent = <<"c","o","m","p","l","e","t","e">> =>
        LET r == call.residual
            ds == DigitPositions(r)
        IN  /\ call.command.action = <<"d","o","n","e">>
            /\ IF ds = {} THEN call.command.args = <<"1">>
               ELSE \E i \in ds, j \in ds :
                        /\ i <= j
                        /\ \A k \in ds : i <= k
                        /\ \A k \in i..j : k \in ds
                        /\ j + 1 \notin ds
                        /\ call.command.args = SubSeq(r, i, j)

\* C3 witness: "done t12b3" completes task 12, the first of two runs.
C3_Witness ==
    /\ Synthesized
    /\ call.input = <<"d","o","n","e"," ","t","1","2","b","3">>
    /\ call.command = [action |-> <<"d","o","n","e">>, args |-> <<"1","2">>]

\* a filter followed by the project-scope filter, when there is one
WithScope(filter, scope) ==
    IF scope = <<>> THEN filter ELSE filter \o <<" ">> \o scope

\* the text has a project cue followed by an identifier token
ProjectCueWithToken(s) == Includes(s, <<"p","r","o","j","e","c","t">>) /\ ProjectMatch(s, 1) # Undefined

\* C4: the command of a query classified as list has verb list, and its
\* argument is the due-today filter with the project-scope filter when the
\* residual text has a today/now cue; else the high-priority filter with the
\* project-scope filter when it has an urgent/high cue; else the explicit
\* project filter when it has a project cue followed by an identifier token;
\* and the project-scope filter in every other case.
C4_ListArgument ==
    Synthesized /\ call.intent = <<"l","i","s","t">> =>
        LET r == call.residual
            scope == ProjectFilter(context)
        IN  /\ call.command.action = <<"l","i","s","t">>
            /\ call.command.args =
                  IF Includes(r, <<"t","o","d","a","y">>) \/ Includes(r, <<"n","o","w">>)
                  THEN WithScope(<<"d","u","e",":","t","o","d","a","y">>, scope)
                  ELSE IF Includes(r, <<"u","r","g","e","n","t">>) \/ Includes(r, <<"h","i","g","h">>)
                  THEN WithScope(<<"p","r","i","o","r","i","t","y",":","H">>, scope)
                  ELSE IF ProjectCueWithToken(r)
                  THEN <<"p","r","o","j","e","c","t",":">> \o ProjectMatch(r, 1)
                  ELSE scope

\* the residual text has none of the cues of the list intent
NoListCue(s) ==
    \A cue \in {<<"t","o","d","a","y">>, <<"n","o","w">>, <<"u","r","g","e","n","t">>, <<"h","i","g","h">>, <<"p","r","o","j","e","c","t">>} :
        ~Includes(s, cue)

\* the call put the bare project-scope filter in the argument: a next
\* command, or a list command whose residual text has no cue
ScopeOnly ==
    /\ Synthesized
    /\ \/ call.intent = <<"n","e","x","t">>
       \/ call.intent = <<"l","i","s","t">> /\ NoListCue(call.residual)

-----------------------------------------------------------------------------
(* Properties of detectContext, under Spec *)

\* a detectContext call has returned; the environment is the one it ran in
Detected == call.op = "detectContext" /\ ~call.raised

\* the marker file exists and holds text
MarkerReadable == markerFile.kind = "file"

\* the query for the top-level directory of the repository succeeds
TopLevelKnown == gitTop # GitFails /\ Trim(gitTop) # <<>>

\* the last segment of a path
BaseName(path) == LastSegment(path)

\* C6: after a detectContext call, whatever calls came before it, the project
\* is that of the marker file when the file exists, with the working
\* directory as workspace and as root of the tickets path; else that of the
\* repository when its top-level directory is known, with that directory as
\* workspace; else the name of the working directory, with the working
\* directory as workspace and no tickets path.
C6_ProjectIdentity ==
    Detected =>
        IF MarkerReadable
        THEN /\ context.currentProject = Trim(markerFile.content)
             /\ context.workspacePath = Cwd
             /\ context.ticketsPath = PathJoin(Cwd, <<".","t","i","c","k","e","t","s">>)
        ELSE IF TopLevelKnown
        THEN /\ context.currentProject = BaseName(Trim(gitTop))
             /\ context.workspacePath = Trim(gitTop)
        ELSE /\ context.currentProject = BaseName(Cwd)
             /\ context.workspacePath = Cwd
             /\ context.ticketsPath = Undefined

\* the state file of the detected workspace holds a ticket
StateYields ==
    LET file == stateFiles[context.workspacePath]
    IN  file.kind = "object" /\ Truthy(file.ticket)

\* the branch name is a ticket code
BranchYields == gitBranch # GitFails /\ TicketPattern(Trim(gitBranch))

\* C7: after a detectContext call in which both the state file and the
\* branch name yield a ticket, currentTicket is the ticket of the branch;
\* when one of them alone yields a ticket, currentTicket is that ticket.
C7_BranchAfterStateFile ==
    Detected =>
        /\ BranchYields => context.currentTicket = Trim(gitBranch)
        /\ StateYields /\ ~BranchYields =>
              context.currentTicket = stateFiles[context.workspacePath].ticket

\* C7 witness: the state file names QA-3, the branch is DRX-9, and the call
\* leaves DRX-9.
C7_Witness ==
    /\ Detected
    /\ StateYields
    /\ BranchYields
    /\ stateFiles[context.workspacePath].ticket = <<"Q","A","-","3">>
    /\ context.currentTicket = <<"D","R","X","-","9">>

\* C8: no detectContext call throws, whatever the marker file, the state
\* file and the git client are.
C8_NeverRaises == call.op = "detectContext" => ~call.raised

-----------------------------------------------------------------------------
(* Properties of getTicketTasks, under SpecTickets *)

\* the text of an unchecked-checkbox line "- [ ] text", <<>> for other lines
CheckboxText(line) ==
    IF StartsWith(line, <<"-"," ","["," ","]"," ">>) /\ Len(line) > 6 THEN From(line, 7) ELSE <<>>

\* the positions of a line where a TODO marker stands: the word, in either
\* case, then a colon or a blank
MarkerPositions(line) ==
    {i \in 1..Len(line) :
        /\ StartsWithCI(From(line, i), <<"t","o","d","o">>)
        /\ i + 4 <= Len(line)
        /\ line[i + 4] \in {":", " ", "\t"}}

\* the text of a TODO line: what follows the separators of its first marker,
\* trimmed; <<>> for a line without a marker or without text after it
TodoText(line) ==
    IF MarkerPositions(line) = {} THEN <<>>
    ELSE LET i == CHOOSE p \in MarkerPositions(line) :
                      \A q \in MarkerPositions(line) : p <= q
             rest == From(line, i + 4)
         IN  Trim(From(rest, Span(rest, {":", " ", "\t"}) + 1))

\* the texts of the unchecked-checkbox lines, in document order
RECURSIVE CheckboxTexts(_)
CheckboxTexts(lines) ==
    IF lines = <<>> THEN <<>>
    ELSE (IF CheckboxText(Head(lines)) # <<>>
          THEN <<CheckboxText(Head(lines))>> ELSE <<>>)
             \o CheckboxTexts(Tail(lines))

\* the texts of the TODO lines, in document order
RECURSIVE TodoTexts(_)
TodoTexts(lines) ==
    IF lines = <<>> THEN <<>>
    ELSE (IF TodoText(Head(lines)) # <<>>
          THEN <<TodoText(Head(lines))>> ELSE <<>>)
             \o TodoTexts(Tail(lines))

\* the lines of a file, none when the file is absent
LinesOf(file) ==
    IF file.kind = "file" THEN Split(file.content, "\n") ELSE <<>>

\* C9: getTicketTasks returns the texts of the unchecked-checkbox lines of
\* the checklist file in document order, then the texts of the TODO lines of
\* the notes file in document order; an absent file yields nothing, and the
\* result is empty, without a failure, when the context has no tickets path
\* or the ticket has no directory.
C9_TicketTasks ==
    call.op = "getTicketTasks" =>
        /\ ~call.raised
        /\ call.tasks =
              IF context.ticketsPath = Undefined THEN <<>>
              ELSE CheckboxTexts(
                       LinesOf(ChecklistAt(context.ticketsPath, call.ticket)))
                   \o TodoTexts(
                          LinesOf(NotesAt(context.ticketsPath, call.ticket)))

-----------------------------------------------------------------------------
(* Properties of formatOutput, under SpecFormat *)

Formatted == call.op = "formatOutput"

\* the positions, among the lines of the output that are not blank, of the
\* task rows of the listing: lines that begin with a number, after a header
\* line, unless a line naming "tasks" came before any header line
ListingRows(lines) ==
    {i \in 1..Len(lines) :
        /\ TaskRow(lines[i])
        /\ \E j \in 1..(i - 1) : HeaderLine(lines[j])
        /\ ~\E k \in 1..(i - 1) :
              /\ Includes(lines[k], <<"t","a","s","k","s">>)
              /\ \A j \in 1..k : ~HeaderLine(lines[j])}

\* the lines at the positions of set S, trimmed, in their order
RECURSIVE RowsFrom(_, _, _)
RowsFrom(lines, S, i) ==
    IF i > Len(lines) THEN <<>>
    ELSE (IF i \in S THEN <<Trim(lines[i])>> ELSE <<>>)
             \o RowsFrom(lines, S, i + 1)

\* C10: formatOutput returns the output unchanged for an action other than
\* list and next, and for list and next when the listing has no task row;
\* otherwise it returns "Current tasks:" and the task rows, in their order,
\* each on a line of its own.
C10_FormatOutput ==
    Formatted =>
        LET lines == NonBlankLines(call.output)
            rows == RowsFrom(lines, ListingRows(lines), 1)
        IN  IF call.action \in {<<"l","i","s","t">>, <<"n","e","x","t">>} /\ rows # <<>>
            THEN call.result = <<"C","u","r","r","e","n","t"," ","t","a","s","k","s",":">> \o <<"\n">> \o JoinWith(rows, <<"\n">>)
            ELSE call.result = call.output

\* C10 witness: a header line and two task rows become "Current tasks:" and
\* the two rows.
C10_Witness ==
    /\ Formatted
    /\ call.action = <<"l","i","s","t">>
    /\ call.output = <<"I","D"," ","D","e","s","c","\n"," ","1","2"," ","t","e","a"," ","\n","1"," ","m","i","l","k">>
    /\ call.result = <<"C","u","r","r","e","n","t"," ","t","a","s","k","s",":","\n","1","2"," ","t","e","a","\n","1"," ","m","i","l","k">>

-----------------------------------------------------------------------------
(* Properties of enhanceTaskDescription, under SpecEnhance *)

\* C13: in a fixed context enhanceTaskDescription is idempotent: applied to
\* a description it returned, it returns that description unchanged.
C13_EnhanceIdempotent ==
    call.op = "enhanceTaskDescription" /\ call.applied >= 2 =>
        call.result = call.description

\* C13 witness: "A" got the ticket tag and the project annotation, and the
\* second application added nothing.
C13_Witness ==
    /\ call.op = "enhanceTaskDescription"
    /\ call.applied = 2
    /\ call.original = <<"A">>
    /\ call.description = <<"A"," ","+","D","R","X","-","9"," ","p","r","o","j","e","c","t",":","w","e","b">>
    /\ call.result = <<"A"," ","+","D","R","X","-","9"," ","p","r","o","j","e","c","t",":","w","e","b">>

-----------------------------------------------------------------------------
(* Properties of formatTaskwarriorProject, under SpecLabel *)

Labelled == call.op = "formatTaskwarriorProject"

\* the label follows a detection that read "my-project" from the marker file
LabelledAfterMarker ==
    /\ Labelled
    /\ call.detected
    /\ markerFile = TextFile(<<"m","y","-","p","r","o","j","e","c","t","\n">>)

\* C14 as stated: when the marker file holds "my-project", the detection
\* leaves currentProject = "my-project" and a following
\* formatTaskwarriorProject returns "my-project".
C14_MarkerLabel ==
    LabelledAfterMarker =>
        /\ context.currentProject = <<"m","y","-","p","r","o","j","e","c","t">>
        /\ call.result = <<"m","y","-","p","r","o","j","e","c","t">>

\* C14 as amended: formatTaskwarriorProject returns currentTicket when it is
\* a non-empty string, else currentProject when it is a non-empty string,
\* else "general"; after a detection that read "my-project" from the marker
\* file currentProject is "my-project", and the label is "my-project" when
\* the context holds no ticket.
C14_LabelFallback ==
    /\ Labelled =>
          call.result =
              IF context.currentTicket \notin {Undefined, <<>>}
              THEN context.currentTicket
              ELSE IF context.currentProject \notin {Undefined, <<>>}
              THEN context.currentProject
              ELSE <<"g","e","n","e","r","a","l">>
    /\ LabelledAfterMarker =>
          /\ context.currentProject = <<"m","y","-","p","r","o","j","e","c","t">>
          /\ context.currentTicket \in {Undefined, <<>>} =>
                call.result = <<"m","y","-","p","r","o","j","e","c","t">>

\* C14 witness: marker file "my-project", no ticket, label "my-project".
C14_Witness ==
    /\ LabelledAfterMarker
    /\ context.currentTicket = Undefined
    /\ call.result = <<"m","y","-","p","r","o","j","e","c","t">>

-----------------------------------------------------------------------------
(* Properties of the ticket override and of the context fields, under Spec *)

\* C15: currentTicket changes only in a setCurrentTicket call, or in a
\* detectContext call whose state file or branch name yields a ticket; a
\* detection that finds no ticket leaves the ticket set before it.
C15_TicketPersists ==
    [][context'.currentTicket # context.currentTicket =>
          \/ call'.op = "setCurrentTicket"
          \/ /\ call'.op = "detectContext"
             /\ ~call'.raised
             /\ (StateYields \/ BranchYields)']_vars

\* C15 witness: a detection that found no ticket has returned and the
\* ticket set by setCurrentTicket("T-2") is still there.
C15_Witness ==
    /\ Detected
    /\ ~StateYields
    /\ ~BranchYields
    /\ context.currentTicket = <<"T","-","2">>

\* C16: each field of the context is absent or a non-empty string.
C16_FieldsNonEmpty ==
    /\ context.currentTicket # <<>>
    /\ context.currentProject # <<>>
    /\ context.workspacePath # <<>>
    /\ context.ticketsPath # <<>>

-----------------------------------------------------------------------------
(* Properties of the trigger table, under SpecTriggers *)

\* the query is the word, or begins with the word and a space
BeginsWithWord(input, w) == input = w \/ StartsWith(input, w \o <<" ">>)

\* C18: a query that is a trigger word of an intent, or begins with the word
\* and a space, is classified as that intent.
C18_EveryTriggerReachable ==
    Parsed =>
        \A k \in 1..Len(TASK_PATTERNS) :
            \A j \in 1..Len(TASK_PATTERNS[k].words) :
                BeginsWithWord(call.input, TASK_PATTERNS[k].words[j]) =>
                    call.intent = TASK_PATTERNS[k].key

-----------------------------------------------------------------------------
(* The summary line of a listing, under SpecFormat *)

\* a summary line: a count, blanks and the word "tasks" (or "task")
SummaryLine(line) ==
    LET s == Trim(line)
        d == Span(s, DigitChars)
        rest == From(s, d + 1)
    IN  /\ d >= 1
        /\ Span(rest, SpaceChars) >= 1
        /\ Trim(rest) \in {<<"t","a","s","k","s">>, <<"t","a","s","k">>}

\* C19: the "Current tasks:" block formatOutput returns for list and next
\* holds no summary line.
C19_NoSummaryRow ==
    Formatted /\ StartsWith(call.result, <<"C","u","r","r","e","n","t"," ","t","a","s","k","s",":","\n">>) =>
        LET rows == Tail(Split(call.result, "\n"))
        IN  \A i \in 1..Len(rows) : ~SummaryLine(rows[i])

-----------------------------------------------------------------------------
(* Properties of the tool handlers, under SpecServer *)

\* a ticket import is being handled, or was handled last
Importing == toolCall.tool = "task_ticket_sync"

C12_FailureEndsRequest ==
    ~Importing =>
        \A k \in 1..Len(toolCall.outcomes) :
            ~toolCall.outcomes[k] =>
                /\ k = Len(toolCall.executed)
                /\ toolCall.pc = "done"
                /\ \E o \in CommandOutcomes :
                      /\ ~o.ok
                      /\ toolCall.response =
                            Failure(<<"T","a","s","k","w","a","r","r","i","o","r"," ","e","r","r","o","r",":"," ">> \o o.text)

\* C12 witness: the second of the four commands of task_eisenhower failed,
\* the last two were not run, and the response is an error.
C12_Witness ==
    /\ toolCall.tool = "task_eisenhower"
    /\ toolCall.outcomes = <<TRUE, FALSE>>
    /\ Len(toolCall.pending) = 2
    /\ toolCall.response.kind = "error"

\* C17: no write to the context comes between the setCurrentTicket of a
\* ticket import and the tagging of its tasks: while the import is handled,
\* currentTicket is the ticket of the import, and every task it adds carries
\* that ticket.
C17_ImportKeepsTicket ==
    Importing =>
        /\ toolCall.pc = "sync" => context.currentTicket = toolCall.arg
        /\ \A k \in 1..Len(toolCall.executed) :
              Includes(toolCall.executed[k], toolCall.arg)

====
